---------------------------- MODULE Spec2Model ----------------------------
(***************************************************************************)
(* A model of src/src/Plugins/AutoSharder.ts.                              *)
(*                                                                         *)
(* Two classes are modelled:                                               *)
(*   AutoResharderClusterClient  (the Reporter, one per worker): its       *)
(*       options, its interval handle, the timers setInterval has armed,   *)
(*       and the sendData() calls suspended on an await;                   *)
(*   AutoResharderManager (the coordinator): clusterDatas (the report      *)
(*       table), clustersListening, isReClustering and the decision        *)
(*       cycle checkReCluster().                                           *)
(*                                                                         *)
(* ClientSpec is the state machine of one Reporter, Spec the state machine *)
(* of the coordinator.  Each leaves the other class's variables alone.     *)
(* RequestSpec applies the shard arithmetic of checkReCluster() to bounded *)
(* inputs, and ConstructSpec is the construction of a coordinator.         *)
(***************************************************************************)
EXTENDS Integers, Sequences, FiniteSets

VARIABLES
    \* ---- AutoResharderClusterClient ----
    options,            \* this.options (sendDataIntervalMS, sendDataFunction)
    interval,           \* this.interval: a timer id, or Null
    started,            \* this.started
    timers,             \* the timers armed by setInterval and not yet cleared
    tasks,              \* sendData() calls suspended on an await, by origin and phase
    stopped,            \* history: stop() was called and start/reStart not since
    rLast,              \* history: the last Reporter step and what it did
    \* ---- AutoResharderManager ----
    managerOptions,     \* this.options
    clusterDatas,       \* this.clusterDatas
    clustersListening,  \* this.clustersListening
    clusterCreateListener, \* whether the plugin's 'clusterCreate' listener is on this.manager
    isReClustering,     \* this.isReClustering
    manager,            \* the fields of this.manager that the plugin reads
    clusters,           \* per id, the current cluster handle: "none", or whether
                        \* the plugin's 'message' listener is on it
    inflight,           \* the manager.recluster.start() calls not yet settled
    cLast               \* history: the last coordinator step and what it did

clientVars == <<options, interval, started, timers, tasks, stopped, rLast>>

managerVars == <<managerOptions, clusterDatas, clustersListening, clusterCreateListener,
                 isReClustering, manager, clusters, inflight, cLast>>

vars == <<options, interval, started, timers, tasks, stopped, rLast,
          managerOptions, clusterDatas, clustersListening, clusterCreateListener,
          isReClustering, manager, clusters, inflight, cLast>>

----------------------------------------------------------------------------
(* Bounds of the model.                                                    *)

\* timers that may be armed at once
MaxTimers == 2

\* sendData() calls that may be suspended at once
MaxTasks == 2

----------------------------------------------------------------------------
(* AutoResharderClusterClient                                              *)

\* the null of this.interval
Null == 0

\* the smallest sendDataIntervalMS validate() accepts
MinSendDataIntervalMS == 1000

\* the default sendDataIntervalMS
DefaultSendDataIntervalMS == 60000

\* values of sendDataIntervalMS a caller may pass: one below the minimum, and
\* the default
IntervalValues == {MinSendDataIntervalMS - 1, DefaultSendDataIntervalMS}

\* values of sendDataFunction a caller may pass, by typeof
FunctionValues == {"function", "notFunction"}

OptionKeys == {"sendDataIntervalMS", "sendDataFunction"}

\* Partial<AutoResharderClientOptions>: no key, or one key with any value
PartialOptions ==
    { [k \in {} |-> 0] }
    \cup { [sendDataIntervalMS |-> ms] : ms \in IntervalValues }
    \cup { [sendDataFunction |-> fn] : fn \in FunctionValues }

\* { ...this.options, ...(newOptions || {}) }
MergeOptions(old, new) ==
    [k \in DOMAIN old \cup DOMAIN new |-> IF k \in DOMAIN new THEN new[k] ELSE old[k]]

\* the options field initializer
DefaultClientOptions ==
    [sendDataIntervalMS |-> DefaultSendDataIntervalMS, sendDataFunction |-> "function"]

\* validate(): "ok", or the error it throws
validateClient(handleOk, opts) ==
    IF ~handleOk THEN "SyntaxError"
    ELSE IF opts.sendDataIntervalMS < MinSendDataIntervalMS THEN "SyntaxError"
    ELSE IF opts.sendDataFunction # "function" THEN "SyntaxError"
    ELSE "ok"

\* the suspended sendData() calls are counted by who called (the timer's
\* callback, or initialize(true)) and by the await they are suspended on
\* (the sendDataFunction, or clusterClient.send)
Origins == {"tick", "init"}

Phases == {"load", "send"}

TaskKinds == Origins \X Phases

NoTasks == [k \in TaskKinds |-> 0]

TaskCount(ts) ==
    ts[<<"tick", "load">>] + ts[<<"tick", "send">>] + ts[<<"init", "load">>] + ts[<<"init", "send">>]

AddTask(ts, k) == [ts EXCEPT ![k] = @ + 1]

RemoveTask(ts, k) == [ts EXCEPT ![k] = @ - 1]

TimerIds == 1 .. (MaxTimers + 1)

\* the handle setInterval returns: one no armed timer and no held handle has
FreshTimer(ts, held) ==
    CHOOSE i \in TimerIds :
        /\ i \notin {t.id : t \in ts} \cup {held}
        /\ \A j \in TimerIds : j < i => j \in {t.id : t \in ts} \cup {held}

\* clearInterval(h): disarms the timer h names, if it is still armed
clearInterval(ts, h) == {t \in ts : t.id # h}

\* setInterval(() => this.sendData(), ms)
setInterval(ts, held, ms) == ts \cup {[id |-> FreshTimer(ts, held), ms |-> ms]}

\* a JavaScript number, and a JavaScript string, told apart by typeof
Num(n) == [type |-> "number", num |-> n, str |-> ""]

Str(s) == [type |-> "string", num |-> 0, str |-> s]

\* NaN: typeof gives 'number', and every comparison with it is false
NaN == [type |-> "number", num |-> 0, str |-> "NaN"]

\* a < 0 of JavaScript, for a value of type number
Negative(v) == v.str # "NaN" /\ v.num < 0

\* the values the awaited sendDataFunction may resolve with: something that
\* is no object, or an object with a clusterId (a number or a string) and at
\* most one shard, whose shardId is a number and whose guildCount is a
\* number, NaN or a string
SendDataValues ==
    { [type |-> "string", clusterId |-> Num(0), shardData |-> <<>>] }
    \cup { [type |-> "object", clusterId |-> c, shardData |-> <<>>] :
              c \in {Num(-1), Num(0), Str("0")} }
    \cup { [type |-> "object", clusterId |-> Num(0),
            shardData |-> <<[shardId |-> Num(0), guildCount |-> g]>>] :
              g \in {Num(-1), Num(0), NaN, Str("many")} }
    \cup { [type |-> "object", clusterId |-> Num(0),
            shardData |-> <<[shardId |-> Num(-1), guildCount |-> Num(0)]>>] }

\* the shape check with the typeof test of guildCount left out
InvalidSendDataUntyped(d) ==
    \/ d.type # "object"
    \/ d.clusterId.type # "number"
    \/ Negative(d.clusterId)
    \/ \E i \in 1 .. Len(d.shardData) :
          \/ Negative(d.shardData[i].guildCount)
          \/ d.shardData[i].shardId.type # "number"
          \/ Negative(d.shardData[i].shardId)

\* the shape check of sendData() (shardData is an array in every value of
\* the model)
InvalidSendData(d) ==
    \/ d.type # "object"
    \/ d.clusterId.type # "number"
    \/ Negative(d.clusterId)
    \/ \E i \in 1 .. Len(d.shardData) :
          \/ d.shardData[i].guildCount.type # "number"
          \/ Negative(d.shardData[i].guildCount)
          \/ d.shardData[i].shardId.type # "number"
          \/ Negative(d.shardData[i].shardId)

NoReport == [type |-> "object", clusterId |-> Num(-1), shardData |-> <<>>]

RStep(op, result, hadTimer, badOverride, immediate, optsChanged, timersChanged, report) ==
    [op |-> op, result |-> result, hadTimer |-> hadTimer, badOverride |-> badOverride,
     immediate |-> immediate, optsChanged |-> optsChanged, timersChanged |-> timersChanged,
     report |-> report]

\* whether this.clusterClient passes validate()'s handle check at a call (it
\* is read only by sendData(), so only by a call that sends at once)
HandleOk(executeSendData) == IF executeSendData THEN BOOLEAN ELSE {TRUE}

\* whether an override itself carries a value validate() rejects
InvalidOverride(new) ==
    \/ "sendDataIntervalMS" \in DOMAIN new /\ new.sendDataIntervalMS < MinSendDataIntervalMS
    \/ "sendDataFunction" \in DOMAIN new /\ new.sendDataFunction # "function"

\* whether this.interval names an armed timer
Armed(ts, h) == \E t \in ts : t.id = h

\* initialize(executeSendData), up to its first await or its return:
\* the timers, the handle, the suspended calls and the outcome
\* ("armed": returned true; "suspended": awaiting sendData(); or the error
\* sendData() threw before its first await)
initialize(ts, held, tks, handleOk, opts, executeSendData) ==
    LET cleared == IF held # Null THEN clearInterval(ts, held) ELSE ts
    IN  IF executeSendData
        THEN IF validateClient(handleOk, opts) # "ok"
             THEN [timers |-> cleared, interval |-> held, tasks |-> tks,
                   result |-> validateClient(handleOk, opts)]
             ELSE [timers |-> cleared, interval |-> held,
                   tasks |-> AddTask(tks, <<"init", "load">>), result |-> "suspended"]
        ELSE [timers |-> setInterval(cleared, held, opts.sendDataIntervalMS),
              interval |-> FreshTimer(cleared, held), tasks |-> tks, result |-> "armed"]

\* the bound on armed timers and suspended calls, for a call of initialize
InitializeInBounds(ts, held, tks, executeSendData) ==
    IF executeSendData
    THEN TaskCount(tks) < MaxTasks
    ELSE Cardinality(IF held # Null THEN clearInterval(ts, held) ELSE ts) < MaxTimers

\* the state after the constructor: options merged, validate() passed,
\* initialize() armed the first timer
ClientInit ==
    /\ options \in { o \in { MergeOptions(DefaultClientOptions, p) : p \in PartialOptions } :
                       validateClient(TRUE, o) = "ok" }
    /\ started = FALSE
    /\ timers = setInterval({}, Null, options.sendDataIntervalMS)
    /\ interval = FreshTimer({}, Null)
    /\ tasks = NoTasks
    /\ stopped = FALSE
    /\ rLast = RStep("constructor", "armed", FALSE, FALSE, FALSE, FALSE, TRUE, NoReport)

\* stop()
stop ==
    /\ timers' = (IF interval # Null THEN clearInterval(timers, interval) ELSE timers)
    /\ interval' = Null
    /\ stopped' = TRUE
    /\ rLast' = RStep("stop", IF started = FALSE THEN "NotRunning" ELSE "ok",
                      Armed(timers, interval), FALSE, FALSE, FALSE, Armed(timers, interval),
                      NoReport)
    /\ UNCHANGED <<options, started, tasks>>
    /\ UNCHANGED managerVars

\* start(newOptions, executeSendData)
start(newOptions, executeSendData, handleOk) ==
    /\ IF started = TRUE
       THEN /\ rLast' = RStep("start", "AlreadyStarted", Armed(timers, interval),
                              InvalidOverride(newOptions),
                              executeSendData, FALSE, FALSE, NoReport)
            /\ UNCHANGED <<options, interval, timers, tasks>>
       ELSE \E opts \in {MergeOptions(options, newOptions)} :
            \E r \in {initialize(timers, interval, tasks, handleOk, opts, executeSendData)} :
                /\ InitializeInBounds(timers, interval, tasks, executeSendData)
                /\ options' = opts
                /\ timers' = r.timers
                /\ interval' = r.interval
                /\ tasks' = r.tasks
                /\ rLast' = RStep("start", r.result, Armed(timers, interval),
                                  InvalidOverride(newOptions), executeSendData,
                                  opts # options, r.timers # timers, NoReport)
    /\ stopped' = FALSE
    /\ UNCHANGED started
    /\ UNCHANGED managerVars

\* reStart(newOptions, executeSendData)
reStart(newOptions, executeSendData, handleOk) ==
    \E cleared \in {IF interval # Null THEN clearInterval(timers, interval) ELSE timers},
       opts \in {MergeOptions(options, newOptions)} :
    \E r \in {initialize(cleared, Null, tasks, handleOk, opts, executeSendData)} :
        /\ InitializeInBounds(cleared, Null, tasks, executeSendData)
        /\ options' = opts
        /\ timers' = r.timers
        /\ interval' = r.interval
        /\ tasks' = r.tasks
        /\ stopped' = FALSE
        /\ rLast' = RStep("reStart", r.result, Armed(timers, interval),
                          InvalidOverride(newOptions), executeSendData,
                          opts # options, r.timers # timers, NoReport)
        /\ UNCHANGED started
        /\ UNCHANGED managerVars

\* the timer's callback with a sendData() that clears the timer when
\* validate() throws
tickCancelsOnFailure(t, handleOk) ==
    /\ t \in timers
    /\ validateClient(handleOk, options) = "ok" => TaskCount(tasks) < MaxTasks
    /\ IF validateClient(handleOk, options) # "ok"
       THEN /\ tasks' = tasks
            /\ timers' = clearInterval(timers, t.id)
            /\ rLast' = RStep("tick", validateClient(handleOk, options), TRUE, FALSE, FALSE,
                              FALSE, FALSE, NoReport)
       ELSE /\ tasks' = AddTask(tasks, <<"tick", "load">>)
            /\ timers' = timers
            /\ rLast' = RStep("tick", "suspended", TRUE, FALSE, FALSE, FALSE, FALSE, NoReport)
    /\ UNCHANGED <<options, interval, started, stopped>>
    /\ UNCHANGED managerVars

\* a timer armed by setInterval fires: () => this.sendData(), up to the
\* first await of sendData()
tick(t, handleOk) ==
    /\ t \in timers
    /\ validateClient(handleOk, options) = "ok" => TaskCount(tasks) < MaxTasks
    /\ IF validateClient(handleOk, options) # "ok"
       THEN /\ tasks' = tasks
            /\ rLast' = RStep("tick", validateClient(handleOk, options), TRUE, FALSE, FALSE,
                              FALSE, FALSE, NoReport)
       ELSE /\ tasks' = AddTask(tasks, <<"tick", "load">>)
            /\ rLast' = RStep("tick", "suspended", TRUE, FALSE, FALSE, FALSE, FALSE, NoReport)
    /\ UNCHANGED <<options, interval, started, timers, stopped>>
    /\ UNCHANGED managerVars

\* the awaited sendDataFunction of a suspended sendData() rejects
loadRejected(origin) ==
    /\ tasks[<<origin, "load">>] > 0
    /\ tasks' = RemoveTask(tasks, <<origin, "load">>)
    /\ rLast' = RStep("sendDataFunction", "rejected", FALSE, FALSE, origin = "init",
                      FALSE, FALSE, NoReport)
    /\ UNCHANGED <<options, interval, started, timers, stopped>>
    /\ UNCHANGED managerVars

\* the awaited sendDataFunction of a suspended sendData() resolves with d:
\* the shape check, then clusterClient.send() up to its await
loadResolved(origin, d) ==
    /\ tasks[<<origin, "load">>] > 0
    /\ IF InvalidSendData(d)
       THEN /\ tasks' = RemoveTask(tasks, <<origin, "load">>)
            /\ rLast' = RStep("sendDataFunction", "SyntaxError", FALSE, FALSE, origin = "init",
                              FALSE, FALSE, d)
       ELSE /\ tasks' = AddTask(RemoveTask(tasks, <<origin, "load">>), <<origin, "send">>)
            /\ rLast' = RStep("sendDataFunction", "sent", FALSE, FALSE, origin = "init",
                              FALSE, FALSE, d)
    /\ UNCHANGED <<options, interval, started, timers, stopped>>
    /\ UNCHANGED managerVars

\* the awaited clusterClient.send() of a sendData() called by the timer settles
tickSendSettled(resolved) ==
    /\ tasks[<<"tick", "send">>] > 0
    /\ tasks' = RemoveTask(tasks, <<"tick", "send">>)
    /\ rLast' = RStep("send", IF resolved THEN "resolved" ELSE "rejected", FALSE, FALSE, FALSE,
                      FALSE, FALSE, NoReport)
    /\ UNCHANGED <<options, interval, started, timers, stopped>>
    /\ UNCHANGED managerVars

\* the awaited clusterClient.send() of the sendData() of initialize(true)
\* settles: a rejection rejects initialize(); otherwise initialize() resumes
\* and arms the timer with the options of that moment
initSendSettled(resolved) ==
    /\ tasks[<<"init", "send">>] > 0
    /\ tasks' = RemoveTask(tasks, <<"init", "send">>)
    /\ IF resolved
       THEN /\ Cardinality(timers) < MaxTimers
            /\ timers' = setInterval(timers, interval, options.sendDataIntervalMS)
            /\ interval' = FreshTimer(timers, interval)
            /\ rLast' = RStep("send", "armed", Armed(timers, interval), FALSE, TRUE,
                              FALSE, TRUE, NoReport)
       ELSE /\ UNCHANGED <<timers, interval>>
            /\ rLast' = RStep("send", "rejected", Armed(timers, interval), FALSE, TRUE,
                              FALSE, FALSE, NoReport)
    /\ UNCHANGED <<options, started, stopped>>
    /\ UNCHANGED managerVars

ClientFrozen ==
    /\ options = DefaultClientOptions
    /\ interval = Null
    /\ started = FALSE
    /\ timers = {}
    /\ tasks = NoTasks
    /\ stopped = FALSE
    /\ rLast = RStep("none", "none", FALSE, FALSE, FALSE, FALSE, FALSE, NoReport)

----------------------------------------------------------------------------
(* AutoResharderManager                                                    *)

\* the clusters the manager knows (manager.clusterList.length)
MaxKnown == 2

\* cluster ids that exist: one more than the manager knows, so that the
\* table can outgrow manager.clusterList
ClusterIds == 0 .. MaxKnown

\* the bounds validate() puts on the options
MinGuildsFloor == 500

MaxGuildsCeiling == 2500

AutoMaxGuildsFloor == 2000

\* the options field initializer (restartOptions are passed through untouched)
DefaultManagerOptions ==
    [ShardsPerCluster |-> Str("useManagerOption"), MinGuildsPerShard |-> Num(800),
     MaxGuildsPerShard |-> Num(1750), debug |-> TRUE]

\* validate() with < for <= between MaxGuildsPerShard and MinGuildsPerShard
validateManagerMaxEqualsMin(opts, hasRecluster) ==
    IF opts.ShardsPerCluster.type = "string" /\ opts.ShardsPerCluster.str # "useManagerOption"
    THEN "SyntaxError"
    ELSE IF opts.ShardsPerCluster.type # "number" \/ opts.ShardsPerCluster.num < 1
    THEN "SyntaxError"
    ELSE IF opts.MinGuildsPerShard.type = "string" /\ opts.MinGuildsPerShard.str # "auto"
    THEN "SyntaxError"
    ELSE IF opts.MinGuildsPerShard.type # "number" \/ opts.MinGuildsPerShard.num < MinGuildsFloor
    THEN "SyntaxError"
    ELSE IF \/ opts.MaxGuildsPerShard.type # "number"
            \/ /\ opts.MinGuildsPerShard.type = "number"
               /\ opts.MaxGuildsPerShard.num < opts.MinGuildsPerShard.num
            \/ opts.MaxGuildsPerShard.num > MaxGuildsCeiling
    THEN "SyntaxError"
    ELSE IF ~hasRecluster
    THEN "RangeError"
    ELSE IF /\ opts.MinGuildsPerShard.type = "string"
            /\ opts.MinGuildsPerShard.str = "auto"
            /\ opts.MaxGuildsPerShard.num <= AutoMaxGuildsFloor
    THEN "RangeError"
    ELSE "ok"

\* validate(): "ok", or the error it throws
validateManager(opts, hasRecluster) ==
    IF opts.ShardsPerCluster.type = "string" /\ opts.ShardsPerCluster.str # "useManagerOption"
    THEN "SyntaxError"
    ELSE IF opts.ShardsPerCluster.type # "number" \/ opts.ShardsPerCluster.num < 1
    THEN "SyntaxError"
    ELSE IF opts.MinGuildsPerShard.type = "string" /\ opts.MinGuildsPerShard.str # "auto"
    THEN "SyntaxError"
    ELSE IF opts.MinGuildsPerShard.type # "number" \/ opts.MinGuildsPerShard.num < MinGuildsFloor
    THEN "SyntaxError"
    ELSE IF \/ opts.MaxGuildsPerShard.type # "number"
            \/ /\ opts.MinGuildsPerShard.type = "number"
               /\ opts.MaxGuildsPerShard.num <= opts.MinGuildsPerShard.num
            \/ opts.MaxGuildsPerShard.num > MaxGuildsCeiling
    THEN "SyntaxError"
    ELSE IF ~hasRecluster
    THEN "RangeError"
    ELSE IF /\ opts.MinGuildsPerShard.type = "string"
            /\ opts.MinGuildsPerShard.str = "auto"
            /\ opts.MaxGuildsPerShard.num <= AutoMaxGuildsFloor
    THEN "RangeError"
    ELSE "ok"

\* options a caller may pass to the constructor
ManagerOptionValues ==
    { [ShardsPerCluster |-> spc, MinGuildsPerShard |-> mn, MaxGuildsPerShard |-> mx,
       debug |-> TRUE] :
        spc \in {Str("useManagerOption"), Num(0), Num(2)},
        mn \in {Str("auto"), Num(MinGuildsFloor - 1), Num(800)},
        mx \in {Num(800), Num(1750), Num(MaxGuildsCeiling + 1)} }

\* a JavaScript array: its identity and its elements
Array(ref, elems) == [ref |-> ref, elems |-> elems]

\* Array.from(Array(n).keys()): a new array 0 .. n-1, identical to no live object
ArrayFromKeys(n, live) ==
    Array(CHOOSE r \in 1 .. (Cardinality(live) + 1) :
              r \notin live /\ \A q \in 1 .. (Cardinality(live) + 1) : q < r => q \in live,
          [i \in 1 .. n |-> i - 1])

\* a != b of two objects: they are not the same object
LooseNotEqual(a, b) == a.ref # b.ref

\* Math.ceil(a / b), for a >= 0 and b > 0
CeilDiv(a, b) == (a + b - 1) \div b

\* Math.ceil(t * 1.2): in double arithmetic this is ceil(6t/5) for every
\* 0 <= t < 2000, and no t of the model is larger
CeilTimesOnePointTwo(t) == CeilDiv(6 * t, 5)

RECURSIVE SumGuilds(_)
\* shardData.reduce((a, b) => b.guildCount + a, 0); the guild counts of the
\* model are integers, so the NaN test of the reducer never replaces one by 0
SumGuilds(shardData) ==
    IF shardData = <<>> THEN 0
    ELSE shardData[Len(shardData)].guildCount + SumGuilds(SubSeq(shardData, 1, Len(shardData) - 1))

RECURSIVE SumAllGuilds(_)
\* clusterDatas.flatMap(v => v.shardData).reduce(..., 0)
SumAllGuilds(datas) ==
    IF datas = <<>> THEN 0
    ELSE SumGuilds(datas[Len(datas)].shardData) + SumAllGuilds(SubSeq(datas, 1, Len(datas) - 1))

\* newShardsCount, for a numeric MinGuildsPerShard
newShardsCount(datas, minGuilds) == CeilDiv(SumAllGuilds(datas), minGuilds)

\* realShardCount with >= for >: an estimate equal to the current total is kept
realShardCountAtLeast(newCount, totalShards) ==
    IF newCount >= totalShards THEN newCount ELSE CeilTimesOnePointTwo(totalShards)

\* realShardCount without the raise by 20%: the current total is kept
realShardCountNoRaise(newCount, totalShards) ==
    IF newCount > totalShards THEN newCount ELSE totalShards

\* newShardsCount > totalShards ? newShardsCount : Math.ceil(totalShards * 1.2)
realShardCount(newCount, totalShards) ==
    IF newCount > totalShards THEN newCount ELSE CeilTimesOnePointTwo(totalShards)

\* finalShardsPerCluster
finalShardsPerCluster(opts, mgr) ==
    IF opts.ShardsPerCluster.type = "string" /\ opts.ShardsPerCluster.str = "useManagerOption"
    THEN IF mgr.shardsPerClusters # 0
         THEN mgr.shardsPerClusters
         ELSE CeilDiv(Len(mgr.shardList.elems), mgr.totalClusters)
    ELSE opts.ShardsPerCluster.num

\* the argument of recluster.start() with Math.floor for Math.ceil in totalClusters
reclusterRequestFloor(opts, mgr, shardCount) ==
    [shardsPerClusters |-> finalShardsPerCluster(opts, mgr),
     totalShards |-> shardCount,
     totalClusters |-> shardCount \div finalShardsPerCluster(opts, mgr),
     shardList |-> [i \in 1 .. shardCount |-> i - 1]]

\* the argument of manager.recluster.start() (restartOptions spread in untouched)
reclusterRequest(opts, mgr, shardCount) ==
    [shardsPerClusters |-> finalShardsPerCluster(opts, mgr),
     totalShards |-> shardCount,
     totalClusters |-> CeilDiv(shardCount, finalShardsPerCluster(opts, mgr)),
     shardList |-> [i \in 1 .. shardCount |-> i - 1]]

\* v.shardData.some(x => x.guildCount >= MaxGuildsPerShard)
Reached(report, opts) ==
    \E i \in 1 .. Len(report.shardData) :
        report.shardData[i].guildCount >= opts.MaxGuildsPerShard.num

\* index of reachedCluster (clusterDatas.find), 0 when there is none
reachedIndex(datas, opts) ==
    IF \E i \in 1 .. Len(datas) : Reached(datas[i], opts)
    THEN CHOOSE i \in 1 .. Len(datas) :
            Reached(datas[i], opts) /\ \A j \in 1 .. (i - 1) : ~Reached(datas[j], opts)
    ELSE 0

RECURSIVE SortDesc(_)
\* shardData.sort((a, b) => b.guildCount - a.guildCount): stable, descending
SortDesc(s) ==
    IF Len(s) <= 1 THEN s
    ELSE LET m == CHOOSE i \in 1 .. Len(s) :
                      /\ \A j \in 1 .. Len(s) : s[j].guildCount <= s[i].guildCount
                      /\ \A j \in 1 .. (i - 1) : s[j].guildCount < s[i].guildCount
         IN  <<s[m]>> \o SortDesc(SubSeq(s, 1, m - 1) \o SubSeq(s, m + 1, Len(s)))

\* the completeness guard with its comparison turned round
notAllReachedInverted(datas, mgr) == Len(datas) >= Len(mgr.clusterList)

\* the completeness guard: "Not all cluster data(s) reached yet"
notAllReached(datas, mgr) == Len(datas) <= Len(mgr.clusterList)

\* the topology check: the array built here against manager.shardList
topologyMismatch(mgr) ==
    LooseNotEqual(ArrayFromKeys(mgr.totalShards, {mgr.shardList.ref}), mgr.shardList)

\* checkReCluster(), up to its first await or its return: the outcome, the
\* table (the debug log sorts the reached report's shardData in place), the
\* flag, and the recluster.start() calls it made.  The isReClustering test
\* of the source only logs and goes on, so the flag decides nothing here.
checkReCluster(datas, flag, opts, mgr) ==
    IF notAllReached(datas, mgr)
    THEN [outcome |-> "NotAllReached", datas |-> datas, flag |-> flag, calls |-> <<>>]
    ELSE IF topologyMismatch(mgr)
    THEN [outcome |-> "UnsupportedTopology", datas |-> datas, flag |-> flag, calls |-> <<>>]
    ELSE IF reachedIndex(datas, opts) = 0
    THEN [outcome |-> "NoAction", datas |-> datas, flag |-> flag, calls |-> <<>>]
    ELSE IF ~mgr.recluster
    THEN [outcome |-> "MissingRecluster", datas |-> datas, flag |-> flag, calls |-> <<>>]
    ELSE IF opts.MinGuildsPerShard.type = "string" /\ opts.MinGuildsPerShard.str = "auto"
    THEN [outcome |-> "FetchRecommendedShards", datas |-> datas, flag |-> TRUE, calls |-> <<>>]
    ELSE LET shardCount == realShardCount(newShardsCount(datas, opts.MinGuildsPerShard.num),
                                          mgr.totalShards)
             r == reachedIndex(datas, opts)
         IN  [outcome |-> "Executing",
              datas |-> IF opts.debug
                        THEN [datas EXCEPT ![r].shardData = SortDesc(@)]
                        ELSE datas,
              flag |-> TRUE,
              calls |-> <<reclusterRequest(opts, mgr, shardCount)>>]

Shard(id, guilds) == [shardId |-> id, guildCount |-> guilds]

\* the reports a cluster may send: one shard below MaxGuildsPerShard, or a
\* second shard at it

SendDataMessages(id, opts) ==
    { [kind |-> "sendData", data |-> [clusterId |-> id, shardData |-> sd]] :
        sd \in { <<Shard(0, opts.MaxGuildsPerShard.num - 1)>>,
                 <<Shard(0, opts.MaxGuildsPerShard.num - 1),
                   Shard(1, opts.MaxGuildsPerShard.num)>> } }

\* the messages the handle of cluster id may emit; a report carries the
\* sender's id, as the default sendDataFunction makes it
Messages(id, opts) ==
    SendDataMessages(id, opts)
    \cup { [kind |-> k, data |-> [clusterId |-> id, shardData |-> <<>>]] :
             k \in {"notObject", "otherType"} }

\* findIndex(v => v.clusterId === id), 0 for -1
findIndex(datas, id) ==
    IF \E i \in 1 .. Len(datas) : datas[i].clusterId = id
    THEN CHOOSE i \in 1 .. Len(datas) :
            datas[i].clusterId = id /\ \A j \in 1 .. (i - 1) : datas[j].clusterId # id
    ELSE 0

\* the listener without the findIndex: every report is pushed
upsertAlwaysPush(datas, data) == Append(datas, data)

\* if (index < 0) push(data); else clusterDatas[index] = data
upsert(datas, data) ==
    IF findIndex(datas, data.clusterId) = 0
    THEN Append(datas, data)
    ELSE [datas EXCEPT ![findIndex(datas, data.clusterId)] = data]

CStep(op, outcome, size, added, known, reached, contiguous, wasReClustering, calls) ==
    [op |-> op, outcome |-> outcome, size |-> size, added |-> added, known |-> known,
     reached |-> reached, contiguous |-> contiguous, wasReClustering |-> wasReClustering,
     calls |-> calls]

\* manager.shardList is 0 .. totalShards-1, element by element
Contiguous(mgr) ==
    mgr.shardList.elems = [i \in 1 .. mgr.totalShards |-> i - 1]

\* the managers the plugin may be built on: clusterList 0 .. MaxKnown-1, two
\* shards per cluster, the default shardList or a custom one
Managers ==
    { [totalShards |-> 2 * MaxKnown,
       shardList |-> Array(1, [i \in 1 .. (2 * MaxKnown) |-> IF custom THEN i ELSE i - 1]),
       clusterList |-> [i \in 1 .. MaxKnown |-> i - 1],
       totalClusters |-> MaxKnown,
       shardsPerClusters |-> 2,
       recluster |-> TRUE] : custom \in BOOLEAN }

\* the state after the constructor: options merged, validate() passed,
\* initialize() subscribed to 'clusterCreate'
ManagerInit ==
    /\ manager \in Managers
    /\ managerOptions \in { o \in ManagerOptionValues : validateManager(o, manager.recluster) = "ok" }
    /\ clusterDatas = <<>>
    /\ clustersListening = {}
    /\ clusterCreateListener = TRUE
    /\ isReClustering = FALSE
    /\ clusters = [c \in ClusterIds |-> "none"]
    /\ inflight = <<>>
    /\ cLast = CStep("constructor", "none", 0, FALSE, Len(manager.clusterList), FALSE,
                     Contiguous(manager), FALSE, 0)

\* the manager emits 'clusterCreate' for a new cluster handle with this id,
\* the first of this id or one that replaces it (a respawn).  The plugin
\* only compares ids, so the ids are interchangeable and the first handles
\* are announced in the order of the ids.  Without the plugin's listener on
\* the manager nothing of the plugin runs.
clusterCreate(id) ==
    /\ \A c \in ClusterIds : c < id => clusters[c] # "none"
    /\ clusters' = [clusters EXCEPT ![id] =
                        IF clusterCreateListener /\ id \notin clustersListening
                        THEN "listening" ELSE "deaf"]
    /\ clustersListening' = IF clusterCreateListener
                            THEN clustersListening \cup {id} ELSE clustersListening
    /\ cLast' = CStep("clusterCreate", "none", Len(clusterDatas), FALSE, Len(manager.clusterList),
                      FALSE, Contiguous(manager), isReClustering, 0)
    /\ UNCHANGED <<managerOptions, clusterDatas, clusterCreateListener, isReClustering,
                   manager, inflight>>
    /\ UNCHANGED clientVars

\* the handle of cluster id emits 'message', and has the plugin's listener
onMessage(id, message) ==
    /\ clusters[id] = "listening"
    /\ IF message.kind # "sendData"
       THEN /\ cLast' = CStep("message", "Ignored", Len(clusterDatas), FALSE, Len(manager.clusterList),
                              FALSE, Contiguous(manager), isReClustering, 0)
            /\ UNCHANGED <<clusterDatas, isReClustering, inflight>>
       ELSE \E datas \in {upsert(clusterDatas, message.data)} :
            \E r \in {checkReCluster(datas, isReClustering, managerOptions, manager)} :
                /\ clusterDatas' = r.datas
                /\ isReClustering' = r.flag
                /\ inflight' = inflight \o r.calls
                /\ cLast' = CStep("message", r.outcome, Len(datas), Len(datas) > Len(clusterDatas),
                                  Len(manager.clusterList),
                                  reachedIndex(datas, managerOptions) # 0, Contiguous(manager),
                                  isReClustering, Len(r.calls))
    /\ UNCHANGED <<managerOptions, clustersListening, clusterCreateListener, manager, clusters>>
    /\ UNCHANGED clientVars

\* the awaited manager.recluster.start() settles: a rejection rejects
\* checkReCluster() at the await; otherwise it resumes and clears the flag
reclusterSettled(resolved) ==
    /\ inflight # <<>>
    /\ inflight' = Tail(inflight)
    /\ isReClustering' = IF resolved THEN FALSE ELSE isReClustering
    /\ cLast' = CStep("recluster", IF resolved THEN "Finished" ELSE "Rejected", Len(clusterDatas),
                      FALSE, Len(manager.clusterList), FALSE, Contiguous(manager), isReClustering, 0)
    /\ UNCHANGED <<managerOptions, clusterDatas, clustersListening, clusterCreateListener,
                   manager, clusters>>
    /\ UNCHANGED clientVars

ManagerFrozen ==
    /\ manager = [totalShards |-> 0, shardList |-> Array(1, <<>>), clusterList |-> <<>>,
                  totalClusters |-> 0, shardsPerClusters |-> 0, recluster |-> TRUE]
    /\ managerOptions = DefaultManagerOptions
    /\ clusterDatas = <<>>
    /\ clustersListening = {}
    /\ clusterCreateListener = FALSE
    /\ isReClustering = FALSE
    /\ clusters = [c \in ClusterIds |-> "none"]
    /\ inflight = <<>>
    /\ cLast = CStep("none", "none", 0, FALSE, 0, FALSE, TRUE, FALSE, 0)

\* the overrides a caller may pass to the constructor: none, or the three
\* thresholds
ConstructorOptionValues ==
    { [k \in {} |-> 0] }
    \cup { [ShardsPerCluster |-> spc, MinGuildsPerShard |-> mn, MaxGuildsPerShard |-> mx] :
              spc \in {Str("useManagerOption"), Str("other"), Num(0), Num(2)},
              mn \in {Str("auto"), Num(MinGuildsFloor - 1), Num(800)},
              mx \in {Num(800), Num(1750), Num(AutoMaxGuildsFloor), Num(AutoMaxGuildsFloor + 1),
                      Num(MaxGuildsCeiling + 1)} }

\* the managers a plugin may be constructed on: with the ReCluster plugin
\* or without it
ConstructorManagers ==
    Managers \cup { [m EXCEPT !.recluster = FALSE] : m \in Managers }

\* before the constructor: the field initializers
ManagerFields ==
    /\ manager \in ConstructorManagers
    /\ managerOptions = DefaultManagerOptions
    /\ clusterDatas = <<>>
    /\ clustersListening = {}
    /\ clusterCreateListener = FALSE
    /\ isReClustering = FALSE
    /\ clusters = [c \in ClusterIds |-> "none"]
    /\ inflight = <<>>
    /\ cLast = CStep("none", "none", 0, FALSE, Len(manager.clusterList), FALSE,
                     Contiguous(manager), FALSE, 0)

\* new AutoResharderManager(manager, newOptions): the options are merged,
\* validate() runs, and unless it throws initialize() subscribes to
\* 'clusterCreate'
construct(newOptions) ==
    /\ cLast.op = "none"
    /\ \E opts \in {MergeOptions(DefaultManagerOptions, newOptions)} :
       \E v \in {validateManager(opts, manager.recluster)} :
           /\ managerOptions' = opts
           /\ clusterCreateListener' = (v = "ok")
           /\ cLast' = CStep("constructor", v, 0, FALSE, Len(manager.clusterList), FALSE,
                             Contiguous(manager), FALSE, 0)
    /\ UNCHANGED <<clusterDatas, clustersListening, isReClustering, manager, clusters, inflight>>
    /\ UNCHANGED clientVars

----------------------------------------------------------------------------
(* The specifications                                                      *)

Init == ClientFrozen /\ ManagerInit

\* reclusterSettled is no disjunct: no reachable state has a call in flight
\* (ReclusterNeverCalled), so it is never enabled
Next ==
    \/ \E c \in ClusterIds : clusterCreate(c)
    \/ \E c \in ClusterIds : \E m \in Messages(c, managerOptions) : onMessage(c, m)

\* the coordinator
Spec == Init /\ [][Next]_vars

ClientSpecInit == ClientInit /\ ManagerFrozen

ClientSpecNext ==
    \/ stop
    \/ \E o \in PartialOptions, e \in BOOLEAN : \E h \in HandleOk(e) : start(o, e, h)
    \/ \E o \in PartialOptions, e \in BOOLEAN : \E h \in HandleOk(e) : reStart(o, e, h)
    \/ \E t \in timers, h \in BOOLEAN : tick(t, h)
    \/ \E g \in Origins : loadRejected(g)
    \/ \E g \in Origins, d \in SendDataValues : loadResolved(g, d)
    \/ \E b \in BOOLEAN : tickSendSettled(b)
    \/ \E b \in BOOLEAN : initSendSettled(b)

\* one Reporter
ClientSpec == ClientSpecInit /\ [][ClientSpecNext]_vars

ConstructInit == ClientFrozen /\ ManagerFields

\* the manager announces its clusters after the plugin has been constructed
ConstructNext ==
    \/ \E o \in ConstructorOptionValues : construct(o)
    \/ \E c \in ClusterIds : cLast.op # "none" /\ clusterCreate(c)

\* the construction of a coordinator
ConstructSpec == ConstructInit /\ [][ConstructNext]_vars

----------------------------------------------------------------------------
(* The shard arithmetic of checkReCluster(), applied to bounded inputs     *)

\* current totals the arithmetic is applied to: 0 .. MaxTotalShards
MaxTotalShards == 5

\* guild counts of the reports the arithmetic is applied to
RequestGuildCounts == {0, 1000, 3000}

RequestShardDatas ==
    { <<Shard(0, g)>> : g \in RequestGuildCounts }
    \cup { <<Shard(0, g), Shard(1, h)>> : g \in RequestGuildCounts, h \in RequestGuildCounts }

RequestTables ==
    { <<[clusterId |-> 0, shardData |-> a]>> : a \in RequestShardDatas }
    \cup { <<[clusterId |-> 0, shardData |-> a], [clusterId |-> 1, shardData |-> b]>> :
             a \in RequestShardDatas, b \in RequestShardDatas }

RequestOptions ==
    { [ShardsPerCluster |-> Num(spc), MinGuildsPerShard |-> Num(mn),
       MaxGuildsPerShard |-> Num(MaxGuildsCeiling), debug |-> TRUE] :
        spc \in {2, 3}, mn \in {MinGuildsFloor, 1000} }

RequestInit ==
    /\ ClientFrozen
    /\ manager \in { [totalShards |-> t, shardList |-> Array(1, [i \in 1 .. t |-> i - 1]),
                      clusterList |-> <<0>>, totalClusters |-> 1, shardsPerClusters |-> 2,
                      recluster |-> TRUE] : t \in 0 .. MaxTotalShards }
    /\ managerOptions \in { o \in RequestOptions : validateManager(o, TRUE) = "ok" }
    /\ clusterDatas \in RequestTables
    /\ clustersListening = {}
    /\ clusterCreateListener = TRUE
    /\ isReClustering = FALSE
    /\ clusters = [c \in ClusterIds |-> "none"]
    /\ inflight = <<>>
    /\ cLast = CStep("none", "none", Len(clusterDatas), FALSE, 1, FALSE, TRUE, FALSE, 0)

\* newShardsCount, realShardCount and the argument of recluster.start(),
\* computed from the table, the options and the manager
prepareRequest ==
    /\ inflight = <<>>
    /\ inflight' = <<reclusterRequest(managerOptions, manager,
                        realShardCount(newShardsCount(clusterDatas,
                                                      managerOptions.MinGuildsPerShard.num),
                                       manager.totalShards))>>
    /\ cLast' = CStep("request", "none", Len(clusterDatas), FALSE, 1, FALSE, TRUE, FALSE, 1)
    /\ UNCHANGED <<managerOptions, clusterDatas, clustersListening, clusterCreateListener,
                   isReClustering, manager, clusters>>
    /\ UNCHANGED clientVars

RequestNext == prepareRequest

\* the shard arithmetic on its own
RequestSpec == RequestInit /\ [][RequestNext]_vars

----------------------------------------------------------------------------
(* The claims                                                              *)

\* every checkReCluster() that passes the completeness guard throws at the
\* topology check: recluster.start() is never called and the flag never set
ReclusterNeverCalled == inflight = <<>> /\ isReClustering = FALSE

\* a 'message' with a report has been handled: checkReCluster() ran
CycleRan == cLast.op = "message" /\ cLast.outcome # "Ignored"

\* C2: whenever a report has been handled and the table then holds reports
\* from fewer distinct cluster ids than manager.clusterList has entries,
\* checkReCluster() returned at the completeness guard: it did not reach the
\* topology check or the threshold scan and called recluster.start() never.
C2_CompletenessGuard ==
    (CycleRan /\ cLast.size < cLast.known)
        => (cLast.outcome = "NotAllReached" /\ cLast.calls = 0 /\ inflight = <<>>
            /\ isReClustering = FALSE)

\* C2, its case: with two known clusters, the first report has been handled
C2_Witness ==
    CycleRan /\ cLast.size = 1 /\ cLast.known = 2 /\ cLast.outcome = "NotAllReached"

\* C3: when a report arrives that brings the number of distinct cluster ids
\* in the table to exactly the number of known clusters, checkReCluster()
\* passes the completeness guard and goes on to the topology check.
C3_CompletenessTrigger ==
    (CycleRan /\ cLast.added /\ cLast.size = cLast.known)
        => cLast.outcome # "NotAllReached"

\* C4: a decision cycle that passed the completeness guard, under the
\* default contiguous shardList, with manager.recluster attached and no
\* rescale in progress, calls recluster.start() exactly once if some
\* guildCount in the table is >= MaxGuildsPerShard, and otherwise calls it
\* never and leaves isReClustering false.
C4_ThresholdFiring ==
    (CycleRan /\ cLast.outcome # "NotAllReached" /\ cLast.contiguous /\ manager.recluster
        /\ ~cLast.wasReClustering)
        => IF cLast.reached
           THEN cLast.calls = 1 /\ Len(inflight) = 1
           ELSE cLast.calls = 0 /\ isReClustering = FALSE

\* the summed guildCount of the table, counted shard by shard
RECURSIVE C6_Load(_, _, _)
C6_Load(datas, i, j) ==
    IF i > Len(datas) THEN 0
    ELSE IF j > Len(datas[i].shardData) THEN C6_Load(datas, i + 1, 1)
    ELSE datas[i].shardData[j].guildCount + C6_Load(datas, i, j + 1)

\* ceil(x / d): the least n with n * d >= x
C6_Ceil(x, d) == CHOOSE n \in 0 .. x : n * d >= x /\ \A m \in 0 .. (n - 1) : m * d < x

\* C6: with a numeric MinGuildsPerShard, current total T and
\* E = ceil(summed guildCount / MinGuildsPerShard), the totalShards of the
\* request is E when E > T and ceil(T * 1.2) when E <= T.
C6_NewShardCount ==
    inflight # <<>> =>
        LET T == manager.totalShards
            E == C6_Ceil(C6_Load(clusterDatas, 1, 1), managerOptions.MinGuildsPerShard.num)
        IN  inflight[1].totalShards = (IF E > T THEN E ELSE C6_Ceil(12 * T, 10))

\* C6, its case: T = 4, summed load 12000, MinGuildsPerShard 1000 gives 12
C6_Witness ==
    /\ inflight # <<>>
    /\ manager.totalShards = 4
    /\ managerOptions.MinGuildsPerShard.num = 1000
    /\ C6_Load(clusterDatas, 1, 1) = 12000
    /\ inflight[1].totalShards = 12

\* C7: stop() called while this.interval holds an armed timer cancels the
\* timer and returns true without throwing.
C7_StopSucceeds ==
    (rLast.op = "stop" /\ rLast.hadTimer)
        => (rLast.result = "ok" /\ interval = Null /\ rLast.timersChanged)

\* C8: after stop(), and until start() or reStart() is called again, no
\* timer tick begins a sendData().
C8_NoTickAfterStop == ~(stopped /\ rLast.op = "tick")

\* C9: start() called while this.interval holds an armed timer throws
\* 'Already started' and leaves the options and the armed timer as they were.
C9_StartWhileActive ==
    (rLast.op = "start" /\ rLast.hadTimer)
        => (rLast.result = "AlreadyStarted" /\ ~rLast.optsChanged /\ ~rLast.timersChanged)

\* C10: start() and reStart() with an override validate() rejects fail with
\* the validation error, leave this.options as it was and arm no timer with
\* the invalid interval.
C10_InvalidOverride ==
    (rLast.op \in {"start", "reStart"} /\ rLast.badOverride)
        => (rLast.result = "SyntaxError" /\ ~rLast.optsChanged
            /\ \A t \in timers : t.ms >= MinSendDataIntervalMS)

\* a number below zero
C11_Negative(v) == v.type = "number" /\ v.str # "NaN" /\ v.num < 0

\* a report with a negative clusterId, or with a shard whose shardId is
\* negative or whose guildCount is negative or not of type number
C11_BadShape(d) ==
    \/ C11_Negative(d.clusterId)
    \/ \E i \in 1 .. Len(d.shardData) :
          \/ C11_Negative(d.shardData[i].shardId)
          \/ C11_Negative(d.shardData[i].guildCount)
          \/ d.shardData[i].guildCount.type # "number"

\* C11: when the sendDataFunction of a sendData() resolves with a report
\* that has a negative clusterId, a negative shardId, a negative guildCount
\* or a guildCount that is no number, sendData() throws the SyntaxError of
\* the shape check and does not call clusterClient.send(); so every report
\* handed to clusterClient.send() has none of these.
C11_ShapeValidation ==
    (rLast.op = "sendDataFunction" /\ rLast.result # "rejected" /\ C11_BadShape(rLast.report))
        => (rLast.result = "SyntaxError" /\ rLast.result # "sent")

\* C11, its case: a tick's sendDataFunction resolved with a shard whose
\* guildCount is a string, and sendData() threw
C11_Witness ==
    /\ rLast.op = "sendDataFunction"
    /\ ~rLast.immediate
    /\ rLast.report.shardData # <<>>
    /\ rLast.report.shardData[1].guildCount.type = "string"
    /\ rLast.report.shardData[1].shardId = Num(0)
    /\ rLast.result = "SyntaxError"

\* a config the option type allows and the bounds of validate() admit
C12_Allowed(o) ==
    \/ /\ o.ShardsPerCluster = Str("useManagerOption")
       /\ o.MinGuildsPerShard.type = "number"
       /\ o.MaxGuildsPerShard.type = "number"
       /\ 500 <= o.MinGuildsPerShard.num
       /\ o.MinGuildsPerShard.num < o.MaxGuildsPerShard.num
       /\ o.MaxGuildsPerShard.num <= 2500
    \/ /\ o.MinGuildsPerShard = Str("auto")
       /\ \/ o.ShardsPerCluster = Str("useManagerOption")
          \/ o.ShardsPerCluster.type = "number" /\ o.ShardsPerCluster.num >= 1
       /\ o.MaxGuildsPerShard.type = "number"
       /\ 2000 < o.MaxGuildsPerShard.num
       /\ o.MaxGuildsPerShard.num <= 2500

\* C12: the constructor accepts, on a manager with the ReCluster plugin, a
\* config with ShardsPerCluster 'useManagerOption' and numeric
\* 500 <= MinGuildsPerShard < MaxGuildsPerShard <= 2500 (the default config
\* is one), and a config with MinGuildsPerShard 'auto' and
\* 2000 < MaxGuildsPerShard <= 2500.
C12_AcceptsSentinels ==
    (cLast.op = "constructor" /\ manager.recluster /\ C12_Allowed(managerOptions))
        => (cLast.outcome = "ok" /\ clusterCreateListener)

\* a config whose MaxGuildsPerShard is too small for its MinGuildsPerShard
C13_TooSmall(o) ==
    /\ o.MaxGuildsPerShard.type = "number"
    /\ \/ /\ o.MinGuildsPerShard.type = "number"
          /\ o.MaxGuildsPerShard.num <= o.MinGuildsPerShard.num
       \/ /\ o.MinGuildsPerShard = Str("auto")
          /\ o.MaxGuildsPerShard.num <= 2000

\* C13: with a numeric MinGuildsPerShard and MaxGuildsPerShard <= it, and
\* with MinGuildsPerShard 'auto' and MaxGuildsPerShard <= 2000, validate()
\* throws, so the constructor throws before initialize(): the plugin has no
\* 'clusterCreate' listener on the manager and no cluster handle announced
\* afterwards gets its 'message' listener.
C13_RejectsSmallMax ==
    C13_TooSmall(managerOptions)
        => /\ cLast.op = "constructor" => cLast.outcome \in {"SyntaxError", "RangeError"}
           /\ ~clusterCreateListener
           /\ clustersListening = {}
           /\ \A c \in ClusterIds : clusters[c] # "listening"

\* C13, its case: MinGuildsPerShard 800 and MaxGuildsPerShard 800 with all
\* else valid; the constructor threw, and a cluster was announced since
C13_Witness ==
    /\ managerOptions.ShardsPerCluster = Num(2)
    /\ managerOptions.MinGuildsPerShard = Num(800)
    /\ managerOptions.MaxGuildsPerShard = Num(800)
    /\ manager.recluster
    /\ cLast.op = "clusterCreate"
    /\ clusters[0] = "deaf"

\* a step of a sendData() that the timer's callback called
C14_TickStep == rLast'.op \in {"tick", "sendDataFunction", "send"} /\ ~rLast'.immediate

\* C14: no step of a sendData() called by the timer (its start, its failing
\* at validate() or at the shape check, the rejection or the resolution of
\* its sendDataFunction or of its send) disarms a timer or changes
\* this.interval; and a tick whose validate() passes begins a new sendData()
\* whatever the earlier ones did and whether or not they have completed.
C14_TicksIndependent ==
    [][ /\ C14_TickStep => (timers' = timers /\ interval' = interval)
        /\ (rLast'.op = "tick" /\ rLast'.result # "SyntaxError")
              => tasks'[<<"tick", "load">>] = tasks[<<"tick", "load">>] + 1 ]_vars

\* C14, its case: with the timer of this.interval armed, a tick began a
\* sendData() while the sendData() of an earlier tick was still suspended
C14_Witness ==
    /\ rLast.op = "tick"
    /\ rLast.result = "suspended"
    /\ Armed(timers, interval)
    /\ tasks[<<"tick", "load">>] + tasks[<<"tick", "send">>] = 2

\* C15: in every reachable state of a Reporter at most one timer is armed,
\* and an armed timer is the one this.interval holds.
C15_AtMostOneTimer ==
    /\ Cardinality(timers) <= 1
    /\ \A t \in timers : t.id = interval

\* C16: a decision cycle that passed the completeness guard throws the
\* RangeError of the topology check if and only if manager.shardList
\* differs, element by element, from 0 .. manager.totalShards-1.
C16_TopologyIff ==
    (CycleRan /\ cLast.outcome # "NotAllReached")
        => (cLast.outcome = "UnsupportedTopology" <=> ~cLast.contiguous)

\* C17: every cluster handle announced by 'clusterCreate' has the plugin's
\* 'message' listener, also one that reuses the id of an earlier handle.
C17_ListenerOnEveryHandle ==
    \A c \in ClusterIds : clusters[c] # "none" => clusters[c] = "listening"

\* no two entries of a table have the same clusterId
C18_OnePerCluster(datas) ==
    \A i, j \in 1 .. Len(datas) : datas[i].clusterId = datas[j].clusterId => i = j

\* the table new is the table old after the report data has been received
C18_Received(old, data, new) ==
    IF \E i \in 1 .. Len(old) : old[i].clusterId = data.clusterId
    THEN /\ Len(new) = Len(old)
         /\ \A i \in 1 .. Len(old) :
               new[i] = IF old[i].clusterId = data.clusterId THEN data ELSE old[i]
    ELSE /\ Len(new) = Len(old) + 1
         /\ \A i \in 1 .. Len(old) : new[i] = old[i]
         /\ new[Len(new)] = data

\* C18: clusterDatas never has two entries with the same clusterId; a
\* handled report replaces the entry of its clusterId and leaves the size
\* and the other entries as they were, or, if there is none, is added as
\* one new entry; no other step changes the table, so no entry is ever
\* removed.
C18_ReportTable ==
    [][ /\ C18_OnePerCluster(clusterDatas')
        /\ Len(clusterDatas') >= Len(clusterDatas)
        /\ IF cLast'.op = "message" /\ cLast'.outcome # "Ignored"
           THEN \E c \in ClusterIds : \E m \in SendDataMessages(c, managerOptions) :
                    C18_Received(clusterDatas, m.data, clusterDatas')
           ELSE clusterDatas' = clusterDatas ]_vars

\* C18, its case: with two entries in the table, a report for a clusterId
\* already present has been handled
C18_Witness ==
    /\ cLast.op = "message"
    /\ cLast.outcome # "Ignored"
    /\ ~cLast.added
    /\ cLast.size = 2
    /\ Len(clusterDatas) = 2

=============================================================================
